---- MODULE Spec2Model ----
(***************************************************************************)
(* A model of openRings/sealed: the ENCv1 sealed-value codec, the env-file *)
(* edit engine, the secret intake and the set/get flows of the CLI.        *)
(*                                                                         *)
(* Strings are sequences of one-character strings; bytes are 0..255.       *)
(* The AEAD and base64 primitives come from libraries; base64 is modelled  *)
(* as the STANDARD engine computes it and the AEAD as a small keyed cipher *)
(* with a 16-byte tag over (key, nonce, aad, ciphertext).                  *)
(***************************************************************************)
EXTENDS Integers, Sequences, FiniteSets, TLC

VARIABLES codec, env, intake, cli, lib, mem, race

vars == <<codec, env, intake, cli, lib, mem, race>>

(***************************************************************************)
(* Bounds of the model.                                                    *)
(***************************************************************************)
MaxPlainLen == 2
MaxLines == 2

(***************************************************************************)
(* Program constants.                                                      *)
(***************************************************************************)
KeyLen == 32
NonceLen == 12
TagLen == 16
SplitLimit == 3

(***************************************************************************)
(* Characters and bytes.                                                   *)
(***************************************************************************)
Printable ==
  <<" ", "!", "\"", "#", "$", "%", "&", "'", "(", ")", "*", "+", ",", "-", ".", "/",
    "0", "1", "2", "3", "4", "5", "6", "7", "8", "9", ":", ";", "<", "=", ">", "?",
    "@", "A", "B", "C", "D", "E", "F", "G", "H", "I", "J", "K", "L", "M", "N", "O",
    "P", "Q", "R", "S", "T", "U", "V", "W", "X", "Y", "Z", "[", "\\", "]", "^", "_",
    "<backtick>", "a", "b", "c", "d", "e", "f", "g", "h", "i", "j", "k", "l", "m", "n", "o",
    "p", "q", "r", "s", "t", "u", "v", "w", "x", "y", "z", "{", "|", "}", "~">>

Chars == {Printable[i] : i \in 1..Len(Printable)} \cup {"\n", "\r", "\t"}

\* The UTF-8 code of a character (all characters of the model are ASCII); the
\* entry "<backtick>" holds the place of code 96, which no string of the model uses.
Ord ==
  [c \in Chars |->
     IF c = "\n" THEN 10
     ELSE IF c = "\r" THEN 13
     ELSE IF c = "\t" THEN 9
     ELSE 31 + (CHOOSE i \in 1..Len(Printable) : Printable[i] = c)]

\* str::as_bytes
AsBytes(s) == [i \in 1..Len(s) |-> Ord[s[i]]]

\* char::is_whitespace, on the characters of the model
IsWhitespace(c) == c \in {" ", "\t", "\n", "\r"}

\* str::find(char): the first index of c in s, 0 when absent
Find(s, c) ==
  LET at == {i \in 1..Len(s) : s[i] = c}
  IN IF at = {} THEN 0 ELSE CHOOSE i \in at : \A j \in at : i <= j

\* str::starts_with
StartsWith(s, p) == Len(s) >= Len(p) /\ SubSeq(s, 1, Len(p)) = p

Tail0(s, n) == SubSeq(s, n + 1, Len(s))

\* Result values: Ok(v) and Err(kind, message)
Ok(v) == [ok |-> TRUE, kind |-> "Ok", msg |-> "", val |-> v]

Err(k, m) == [ok |-> FALSE, kind |-> k, msg |-> m, val |-> <<>>]

(***************************************************************************)
(* base64::engine::general_purpose::STANDARD                               *)
(***************************************************************************)
B64Alphabet ==
  <<"A", "B", "C", "D", "E", "F", "G", "H", "I", "J", "K", "L", "M", "N", "O", "P",
    "Q", "R", "S", "T", "U", "V", "W", "X", "Y", "Z", "a", "b", "c", "d", "e", "f",
    "g", "h", "i", "j", "k", "l", "m", "n", "o", "p", "q", "r", "s", "t", "u", "v",
    "w", "x", "y", "z", "0", "1", "2", "3", "4", "5", "6", "7", "8", "9", "+", "/">>

B64Set == {B64Alphabet[i] : i \in 1..Len(B64Alphabet)}

B64Val == [c \in B64Set |-> (CHOOSE i \in 1..Len(B64Alphabet) : B64Alphabet[i] = c) - 1]

B64Char(v) == B64Alphabet[v + 1]

\* STANDARD.encode: three bytes to four symbols, '=' padding
B64Encode(b) ==
  LET n == Len(b)
      at(i) == IF i <= n THEN b[i] ELSE 0
      sym(i) ==
        LET g == (i - 1) \div 4
            pos == (i - 1) % 4
            b1 == at(3 * g + 1)
            b2 == at(3 * g + 2)
            b3 == at(3 * g + 3)
        IN IF pos = 0 THEN B64Char(b1 \div 4)
           ELSE IF pos = 1 THEN B64Char((b1 % 4) * 16 + b2 \div 16)
           ELSE IF pos = 2 THEN
             IF 3 * g + 2 > n THEN "=" ELSE B64Char((b2 % 16) * 4 + b3 \div 64)
           ELSE IF 3 * g + 3 > n THEN "=" ELSE B64Char(b3 % 64)
  IN [i \in 1..(4 * ((n + 2) \div 3)) |-> sym(i)]

\* The number of trailing '=' of s, counted up to three
PadCount(s) ==
  LET n == Len(s)
      eq(i) == i >= 1 /\ s[i] = "="
  IN IF ~eq(n) THEN 0 ELSE IF ~eq(n - 1) THEN 1 ELSE IF ~eq(n - 2) THEN 2 ELSE 3

\* STANDARD.decode: canonical padding is required and trailing bits must be zero.
\* [ok |-> FALSE] stands for any DecodeError.
B64Decode(s) ==
  LET n == Len(s)
      pad == PadCount(s)
      bad == [ok |-> FALSE, bytes |-> <<>>]
  IN IF n % 4 # 0 \/ pad > 2 \/ \E i \in 1..(n - pad) : s[i] \notin B64Set
       THEN bad
     ELSE
       LET m == n - pad
           v(i) == IF i <= m THEN B64Val[s[i]] ELSE 0
           byte(i) ==
             LET g == (i - 1) \div 3
                 pos == (i - 1) % 3
             IN IF pos = 0 THEN v(4 * g + 1) * 4 + v(4 * g + 2) \div 16
                ELSE IF pos = 1 THEN (v(4 * g + 2) % 16) * 16 + v(4 * g + 3) \div 4
                ELSE (v(4 * g + 3) % 4) * 64 + v(4 * g + 4)
       IN IF (pad = 1 /\ v(m) % 4 # 0) \/ (pad = 2 /\ v(m) % 16 # 0) THEN bad
          ELSE [ok |-> TRUE, bytes |-> [i \in 1..(3 * (n \div 4) - pad) |-> byte(i)]]

(***************************************************************************)
(* The AEAD (ChaCha20-Poly1305 in the program): a keyed stream cipher and  *)
(* a 16-byte tag over key, nonce, associated data and ciphertext.          *)
(***************************************************************************)
Keystream(k, n, i) == (k[((i - 1) % KeyLen) + 1] + n[((i - 1) % NonceLen) + 1] + i) % 256

\* x to the power e, modulo 251, for e below 128: the product of the squares
\* x^(2^b) over the bits b of e
PowMod(x, e) ==
  LET x1 == x % 251
      x2 == (x1 * x1) % 251
      x4 == (x2 * x2) % 251
      x8 == (x4 * x4) % 251
      x16 == (x8 * x8) % 251
      x32 == (x16 * x16) % 251
      x64 == (x32 * x32) % 251
      pick(b, y) == IF (e \div b) % 2 = 1 THEN y ELSE 1
  IN (((pick(1, x1) * pick(2, x2)) % 251) * ((pick(4, x4) * pick(8, x8)) % 251)
        * ((pick(16, x16) * pick(32, x32)) % 251) * pick(64, x64)) % 251

\* The term of data[i] in the polynomial in x with the data as coefficients
PolyTerm(data, x, i, hi) ==
  IF i > hi THEN 0 ELSE ((data[i] + 1) * PowMod(x, Len(data) - i)) % 251

\* The polynomial over data[lo..hi], modulo 251, summed by quarters
RECURSIVE PolyEval(_, _, _, _)
PolyEval(data, x, lo, hi) ==
  IF hi - lo < 4
    THEN ((PolyTerm(data, x, lo, hi) + PolyTerm(data, x, lo + 1, hi))
            + (PolyTerm(data, x, lo + 2, hi) + PolyTerm(data, x, lo + 3, hi))) % 251
  ELSE ((PolyEval(data, x, lo, lo + (hi - lo + 1) \div 4 - 1)
           + PolyEval(data, x, lo + (hi - lo + 1) \div 4, lo + 2 * ((hi - lo + 1) \div 4) - 1))
        + (PolyEval(data, x, lo + 2 * ((hi - lo + 1) \div 4), lo + 3 * ((hi - lo + 1) \div 4) - 1)
           + PolyEval(data, x, lo + 3 * ((hi - lo + 1) \div 4), hi))) % 251

AeadTag(k, n, aad, ct) ==
  LET data == <<Len(aad)>> \o aad \o <<Len(ct)>> \o ct
  IN [j \in 1..TagLen |->
        (k[j] + 3 * k[j + TagLen] + 5 * n[((j - 1) % NonceLen) + 1]
           + PolyEval(data, j + 1, 1, Len(data))) % 251]

\* Aead::encrypt: ciphertext || tag
AeadEncrypt(k, n, aad, msg) ==
  LET ct == [i \in 1..Len(msg) |-> (msg[i] + Keystream(k, n, i)) % 256]
  IN ct \o AeadTag(k, n, aad, ct)

\* Aead::decrypt: the plaintext, or an opaque aead::Error
AeadDecrypt(k, n, aad, c) ==
  IF Len(c) < TagLen THEN [ok |-> FALSE, bytes |-> <<>>]
  ELSE
    LET ct == SubSeq(c, 1, Len(c) - TagLen)
        tag == SubSeq(c, Len(c) - TagLen + 1, Len(c))
    IN IF tag # AeadTag(k, n, aad, ct) THEN [ok |-> FALSE, bytes |-> <<>>]
       ELSE [ok |-> TRUE,
             bytes |-> [i \in 1..Len(ct) |-> (ct[i] + 256 - Keystream(k, n, i)) % 256]]

(***************************************************************************)
(* cli/src/crypto.rs                                                       *)
(***************************************************************************)
MsgKeyLen == "key must be 32 bytes after base64 decode"
MsgDecryptFailed == "decryption failed (bad key or data)"
MsgBadFormat == "invalid encrypted value format"
MsgBadNonceB64 == "invalid base64 nonce"
MsgBadNonceLen == "nonce must be 12 bytes after base64 decode"
MsgBadCtB64 == "invalid base64 ciphertext"
MsgBadKeyB64 == "invalid base64 key"
MsgNonceRng == "failed to generate nonce"

SealedTag == <<"E", "N", "C", "v", "1">>

SealedPrefix == SealedTag \o <<":">>

\* decode_key
decode_key(b64) ==
  LET d == B64Decode(b64)
  IN IF ~d.ok THEN Err("Crypto", MsgBadKeyB64)
     ELSE IF Len(d.bytes) # KeyLen THEN Err("Crypto", MsgKeyLen)
     ELSE Ok(d.bytes)

\* Mutant of Aad: the name is not bound into the ciphertext
Aad_Unbound(var_name) == <<>>

\* The associated data of both directions: var_name.as_bytes()
Aad(var_name) == AsBytes(var_name)

\* Mutant of encrypt_value: the two base64 fields are written in the other order
encrypt_value_Swapped(key, var_name, plaintext, rng) ==
  IF Len(key) # KeyLen THEN Err("Crypto", MsgKeyLen)
  ELSE IF ~rng.ok THEN Err("Crypto", MsgNonceRng)
  ELSE
    LET nonce == rng.bytes
        ciphertext == AeadEncrypt(key, nonce, Aad(var_name), AsBytes(plaintext))
    IN Ok(SealedPrefix \o B64Encode(ciphertext) \o <<":">> \o B64Encode(nonce))

\* encrypt_value; rng is the outcome of OsRng.try_fill_bytes(&mut nonce)
encrypt_value(key, var_name, plaintext, rng) ==
  IF Len(key) # KeyLen THEN Err("Crypto", MsgKeyLen)
  ELSE IF ~rng.ok THEN Err("Crypto", MsgNonceRng)
  ELSE
    LET nonce == rng.bytes
        ciphertext == AeadEncrypt(key, nonce, Aad(var_name), AsBytes(plaintext))
    IN Ok(SealedPrefix \o B64Encode(nonce) \o <<":">> \o B64Encode(ciphertext))

\* value.splitn(3, ':'): at most three parts, the last one holding the rest
SplitN3(value) ==
  LET c1 == Find(value, ":")
  IN IF c1 = 0 THEN <<value>>
     ELSE
       LET rest1 == Tail0(value, c1)
           c2 == Find(rest1, ":")
       IN IF c2 = 0 THEN <<SubSeq(value, 1, c1 - 1), rest1>>
          ELSE <<SubSeq(value, 1, c1 - 1), SubSeq(rest1, 1, c2 - 1), Tail0(rest1, c2)>>

\* parse_encrypted
parse_encrypted(value) ==
  LET parts == SplitN3(value)
  IN IF Len(parts) < SplitLimit \/ parts[1] # SealedTag THEN Err("Crypto", MsgBadFormat)
     ELSE
       LET nonce == B64Decode(parts[2])
       IN IF ~nonce.ok THEN Err("Crypto", MsgBadNonceB64)
          ELSE IF Len(nonce.bytes) # NonceLen THEN Err("Crypto", MsgBadNonceLen)
          ELSE
            LET ciphertext == B64Decode(parts[3])
            IN IF ~ciphertext.ok THEN Err("Crypto", MsgBadCtB64)
               ELSE Ok([nonce |-> nonce.bytes, ciphertext |-> ciphertext.bytes])

\* Mutant of decrypt_value: a ciphertext shorter than a tag gets its own message
decrypt_value_Verbose(key, var_name, encrypted) ==
  LET parsed == parse_encrypted(encrypted)
  IN IF ~parsed.ok THEN parsed
     ELSE IF Len(key) # KeyLen THEN Err("Crypto", MsgKeyLen)
     ELSE IF Len(parsed.val.ciphertext) < TagLen THEN Err("Crypto", "ciphertext too short")
     ELSE
       LET plaintext == AeadDecrypt(key, parsed.val.nonce, Aad(var_name),
                                    parsed.val.ciphertext)
       IN IF ~plaintext.ok THEN Err("Crypto", MsgDecryptFailed)
          ELSE Ok(plaintext.bytes)

\* decrypt_value
decrypt_value(key, var_name, encrypted) ==
  LET parsed == parse_encrypted(encrypted)
  IN IF ~parsed.ok THEN parsed
     ELSE IF Len(key) # KeyLen THEN Err("Crypto", MsgKeyLen)
     ELSE
       LET plaintext == AeadDecrypt(key, parsed.val.nonce, Aad(var_name),
                                    parsed.val.ciphertext)
       IN IF ~plaintext.ok THEN Err("Crypto", MsgDecryptFailed)
          ELSE Ok(plaintext.bytes)

\* is_encrypted
is_encrypted(value) == StartsWith(value, SealedPrefix)

(***************************************************************************)
(* The codec on its own: one value is sealed, then opened under some key   *)
(* and name, or damaged and opened under its own key and name.             *)
(***************************************************************************)
Key1 == [j \in 1..KeyLen |-> (7 * j + 3) % 256]

Key2 == [j \in 1..KeyLen |-> (11 * j + 200) % 256]

\* One byte short: what a SecretSlice not made by decode_key may hold
KeyShort == [j \in 1..(KeyLen - 1) |-> (7 * j + 3) % 256]

KeyPool == {Key1, Key2, KeyShort}

Nonce1 == [j \in 1..NonceLen |-> (5 * j + 1) % 256]

Nonce2 == [j \in 1..NonceLen |-> (13 * j + 99) % 256]

RngOutcomes ==
  {[ok |-> TRUE, bytes |-> Nonce1], [ok |-> TRUE, bytes |-> Nonce2],
   [ok |-> FALSE, bytes |-> <<>>]}

NamePool == {<<"A">>, <<"B">>, <<"A", "B">>}

PlainChars == {"h", "\n"}

SeqsUpTo(S, n) == UNION {[1..m -> S] : m \in 0..n}

PlainPool == SeqsUpTo(PlainChars, MaxPlainLen)

NoResult == Err("None", "")

IdleCodec ==
  [pc |-> "idle", key |-> <<>>, name |-> <<>>, plain |-> <<>>, sealed |-> NoResult,
   cause |-> "none", input |-> <<>>, result |-> NoResult]

\* The fields of a well-formed sealed string, by position
NonceField(s) == SubSeq(s, Len(SealedPrefix) + 1, Len(SealedPrefix) + 16)

CtField(s) == Tail0(s, Len(SealedPrefix) + 17)

Rebuild(tag, nf, cf) == tag \o <<":">> \o nf \o <<":">> \o cf

OtherChar(c) == IF c = "A" THEN "B" ELSE "A"

Tamperings ==
  {"ct_flipped", "ct_truncated", "ct_empty", "ct_not_base64", "ct_bad_padding",
   "nonce_flipped", "nonce_short", "tag_changed"}

Tamper(t, s) ==
  LET nf == NonceField(s)
      cf == CtField(s)
  IN CASE t = "ct_flipped" -> Rebuild(SealedTag, nf, <<OtherChar(cf[1])>> \o Tail(cf))
       [] t = "ct_truncated" -> Rebuild(SealedTag, nf, SubSeq(cf, 1, 4))
       [] t = "ct_empty" -> Rebuild(SealedTag, nf, <<>>)
       [] t = "ct_not_base64" -> Rebuild(SealedTag, nf, <<"*">> \o Tail(cf))
       [] t = "ct_bad_padding" -> Rebuild(SealedTag, nf, SubSeq(cf, 1, Len(cf) - 1))
       [] t = "nonce_flipped" -> Rebuild(SealedTag, <<OtherChar(nf[1])>> \o Tail(nf), cf)
       [] t = "nonce_short" -> Rebuild(SealedTag, SubSeq(nf, 1, 4), cf)
       [] t = "tag_changed" -> Rebuild(<<"E", "N", "C", "v", "2">>, nf, cf)

\* Why a decryption under key k2 and name v2 should fail, if it should
MismatchCause(c, k2, v2) ==
  IF Len(k2) # KeyLen THEN "bad_key_len"
  ELSE IF k2 # c.key /\ v2 # c.name THEN "wrong_both"
  ELSE IF k2 # c.key THEN "wrong_key"
  ELSE IF v2 # c.name THEN "wrong_name"
  ELSE "none"

InitCodec ==
  /\ \E k \in KeyPool, v \in NamePool, p \in PlainPool :
       codec = [IdleCodec EXCEPT !.pc = "start", !.key = k, !.name = v, !.plain = p]
  /\ env = "idle"
  /\ intake = "idle"
  /\ cli = "idle"
  /\ lib = "idle"
  /\ mem = "idle"
  /\ race = "idle"

CodecEncrypt ==
  /\ codec.pc = "start"
  /\ \E rng \in RngOutcomes :
       LET r == encrypt_value(codec.key, codec.name, codec.plain, rng)
       IN codec' = [codec EXCEPT !.sealed = r, !.pc = IF r.ok THEN "sealed" ELSE "failed"]
  /\ UNCHANGED <<env, intake, cli, lib, mem, race>>

CodecDecrypt ==
  /\ codec.pc = "sealed"
  /\ \E k2 \in KeyPool, v2 \in NamePool :
       codec' = [codec EXCEPT !.pc = "decrypted",
                              !.cause = MismatchCause(codec, k2, v2),
                              !.input = codec.sealed.val,
                              !.result = decrypt_value(k2, v2, codec.sealed.val)]
  /\ UNCHANGED <<env, intake, cli, lib, mem, race>>

CodecDecryptTampered ==
  /\ codec.pc = "sealed"
  /\ \E t \in Tamperings :
       LET s == Tamper(t, codec.sealed.val)
       IN codec' = [codec EXCEPT !.pc = "decrypted", !.cause = t, !.input = s,
                                 !.result = decrypt_value(codec.key, codec.name, s)]
  /\ UNCHANGED <<env, intake, cli, lib, mem, race>>

NextCodec == CodecEncrypt \/ CodecDecrypt \/ CodecDecryptTampered

SpecCodec == InitCodec /\ [][NextCodec]_vars

\* C1: opening a sealed value under the key and name it was sealed with succeeds
\* and yields exactly the bytes of the plaintext, whatever nonce was drawn.
C1_RoundTrip ==
  (codec.pc = "decrypted" /\ codec.cause = "none")
    => (codec.result.ok /\ codec.result.val = AsBytes(codec.plain))

C1_Witness ==
  /\ codec.pc = "decrypted"
  /\ codec.cause = "none"
  /\ Len(codec.plain) >= 1
  /\ codec.result.ok
  /\ codec.result.val = AsBytes(codec.plain)

\* C2: opening a sealed value under another key or another name returns a Crypto
\* error and never a plaintext.
C2_ContextBinding ==
  (codec.pc = "decrypted"
     /\ codec.cause \in {"wrong_key", "wrong_name", "wrong_both", "bad_key_len"})
    => (~codec.result.ok /\ codec.result.kind = "Crypto")

C2_Witness ==
  /\ codec.pc = "decrypted"
  /\ codec.cause = "wrong_name"
  /\ ~codec.result.ok
  /\ codec.result.kind = "Crypto"

AuthCauses == {"wrong_key", "wrong_both", "nonce_flipped"}

NameCauses == {"wrong_name"}

\* A ciphertext field that still is standard base64: its bytes are damaged or cut
CtDamagedCauses == {"ct_flipped", "ct_truncated", "ct_empty"}

\* A ciphertext field that is no base64 at all
CtNotBase64Causes == {"ct_not_base64", "ct_bad_padding"}

\* C3 as stated: an authentication failure, a mismatched name and a malformed
\* ciphertext field all give Crypto("decryption failed (bad key or data)").
C3_UniformAsStated ==
  (codec.pc = "decrypted"
     /\ codec.cause \in AuthCauses \cup NameCauses \cup CtDamagedCauses \cup CtNotBase64Causes)
    => (~codec.result.ok /\ codec.result.kind = "Crypto"
          /\ codec.result.msg = MsgDecryptFailed)

\* C3 amended: the message is uniform for an authentication failure, a mismatched
\* name and a ciphertext field that decodes as base64 but holds damaged or too few
\* bytes; a ciphertext field that is not base64 is reported as Crypto too, with the
\* message "invalid base64 ciphertext".
C3_Uniform ==
  /\ (codec.pc = "decrypted"
        /\ codec.cause \in AuthCauses \cup NameCauses \cup CtDamagedCauses)
       => (~codec.result.ok /\ codec.result.kind = "Crypto"
             /\ codec.result.msg = MsgDecryptFailed)
  /\ (codec.pc = "decrypted" /\ codec.cause \in CtNotBase64Causes)
       => (~codec.result.ok /\ codec.result.kind = "Crypto"
             /\ codec.result.msg = MsgBadCtB64)

C3_Witness ==
  /\ codec.pc = "decrypted"
  /\ codec.cause = "ct_truncated"
  /\ codec.result.msg = MsgDecryptFailed

(***************************************************************************)
(* src/envfile.rs                                                          *)
(***************************************************************************)
MsgReadEnv == "failed to read env file"
MsgWriteEnv == "failed to write env file"

\* The env file on disk: a file with content, no file, or a file that cannot be read
FileOf(content) == [kind |-> "file", content |-> content]

MissingFile == [kind |-> "missing", content |-> <<>>]

UnreadableFile == [kind |-> "unreadable", content |-> <<>>]

\* The k-th smallest element of a set of numbers
Nth(S, k) == CHOOSE i \in S : Cardinality({j \in S : j < i}) = k - 1

\* str::lines: split at "\n", a "\r" before the "\n" belongs to the line ending,
\* and a last line without "\n" is a line unless it is empty
Lines(content) ==
  LET nl == {i \in 1..Len(content) : content[i] = "\n"}
      n == Cardinality(nl)
      last == IF n = 0 THEN 0 ELSE Nth(nl, n)
      count == IF last < Len(content) THEN n + 1 ELSE n
      from(k) == IF k = 1 THEN 1 ELSE Nth(nl, k - 1) + 1
      line(k) ==
        IF k > n THEN SubSeq(content, from(k), Len(content))
        ELSE
          LET to == Nth(nl, k) - 1
          IN IF to >= from(k) /\ content[to] = "\r"
               THEN SubSeq(content, from(k), to - 1)
               ELSE SubSeq(content, from(k), to)
  IN [k \in 1..count |-> line(k)]

\* lines.join("\n")
RECURSIVE Join(_)
Join(lines) ==
  IF Len(lines) = 0 THEN <<>>
  ELSE IF Len(lines) = 1 THEN lines[1]
  ELSE lines[1] \o <<"\n">> \o Join(Tail(lines))

\* str::trim_start
TrimStart(s) ==
  LET solid == {i \in 1..Len(s) : ~IsWhitespace(s[i])}
  IN IF solid = {} THEN <<>> ELSE SubSeq(s, Nth(solid, 1), Len(s))

\* str::trim_end
TrimEnd(s) ==
  LET solid == {i \in 1..Len(s) : ~IsWhitespace(s[i])}
  IN IF solid = {} THEN <<>> ELSE SubSeq(s, 1, Nth(solid, Cardinality(solid)))

ExportPrefix == <<"e", "x", "p", "o", "r", "t", " ">>

NoLine ==
  [some |-> FALSE, leading_ws |-> <<>>, export_prefix |-> FALSE, key |-> <<>>,
   value |-> <<>>]

\* parse_var_line
parse_var_line(line) ==
  LET trimmed == TrimStart(line)
  IN IF Len(trimmed) = 0 \/ trimmed[1] = "#" THEN NoLine
     ELSE
       LET leading_ws == SubSeq(line, 1, Len(line) - Len(trimmed))
           export_prefix == StartsWith(trimmed, ExportPrefix)
           rest == IF export_prefix THEN Tail0(trimmed, Len(ExportPrefix)) ELSE trimmed
           eq == Find(rest, "=")
       IN IF eq = 0 THEN NoLine
          ELSE
            LET key == TrimEnd(SubSeq(rest, 1, eq - 1))
            IN IF Len(key) = 0 THEN NoLine
               ELSE [some |-> TRUE, leading_ws |-> leading_ws,
                     export_prefix |-> export_prefix, key |-> key,
                     value |-> Tail0(rest, eq)]

NoValue == [some |-> FALSE, value |-> <<>>]

\* The loop of read_var: the value of every matching line overwrites the last one
RECURSIVE ReadLoop(_, _, _)
ReadLoop(lines, var, last) ==
  IF Len(lines) = 0 THEN last
  ELSE
    LET parsed == parse_var_line(Head(lines))
    IN ReadLoop(Tail(lines), var,
                IF parsed.some /\ parsed.key = var
                  THEN [some |-> TRUE, value |-> parsed.value]
                  ELSE last)

\* Mutant of read_var: the first matching line wins
RECURSIVE ReadLoopFirst(_, _, _)
ReadLoopFirst(lines, var, last) ==
  IF Len(lines) = 0 THEN last
  ELSE
    LET parsed == parse_var_line(Head(lines))
    IN ReadLoopFirst(Tail(lines), var,
                     IF parsed.some /\ parsed.key = var /\ ~last.some
                       THEN [some |-> TRUE, value |-> parsed.value]
                       ELSE last)

read_var_FirstWins(fs, var) ==
  IF fs.kind # "file" THEN Err("EnvFile", MsgReadEnv)
  ELSE Ok(ReadLoopFirst(Lines(fs.content), var, NoValue))

\* read_var
read_var(fs, var) ==
  IF fs.kind # "file" THEN Err("EnvFile", MsgReadEnv)
  ELSE Ok(ReadLoop(Lines(fs.content), var, NoValue))

\* Mutant of Rewritten: the export prefix is not written back
Rewritten_NoExport(parsed, var, value) ==
  parsed.leading_ws \o var \o <<"=">> \o value

\* The line upsert_var writes in the place of a matching line
Rewritten(parsed, var, value) ==
  parsed.leading_ws \o (IF parsed.export_prefix THEN ExportPrefix ELSE <<>>)
    \o var \o <<"=">> \o value

\* Mutant of UpsertLines: the other lines are written back without their
\* leading whitespace
UpsertLines_Trimmed(lines, var, value) ==
  [i \in 1..Len(lines) |->
     LET parsed == parse_var_line(lines[i])
     IN IF parsed.some /\ parsed.key = var THEN Rewritten(parsed, var, value)
        ELSE TrimStart(lines[i])]

\* The loop of upsert_var over the lines
UpsertLines(lines, var, value) ==
  [i \in 1..Len(lines) |->
     LET parsed == parse_var_line(lines[i])
     IN IF parsed.some /\ parsed.key = var THEN Rewritten(parsed, var, value)
        ELSE lines[i]]

Replaced(lines, var) ==
  \E i \in 1..Len(lines) : parse_var_line(lines[i]).some /\ parse_var_line(lines[i]).key = var

\* Mutant of NewContent: no newline is pushed after the joined lines
NewContent_NoNewline(content, var, value) ==
  LET lines == Lines(content)
      edited == UpsertLines(lines, var, value)
  IN Join(IF Replaced(lines, var) THEN edited
          ELSE Append(edited, var \o <<"=">> \o value))

\* The content upsert_var computes from the content it read
NewContent(content, var, value) ==
  LET lines == Lines(content)
      edited == UpsertLines(lines, var, value)
      all == IF Replaced(lines, var) THEN edited
             ELSE Append(edited, var \o <<"=">> \o value)
  IN Join(all) \o <<"\n">>

\* upsert_var: the result and the file afterwards; write_ok is the outcome of fs::write
upsert_var(fs, var, value, write_ok) ==
  IF fs.kind = "unreadable" THEN [result |-> Err("EnvFile", MsgReadEnv), fs |-> fs]
  ELSE
    LET content == IF fs.kind = "missing" THEN <<>> ELSE fs.content
        new_content == NewContent(content, var, value)
    IN IF write_ok THEN [result |-> Ok(<<>>), fs |-> FileOf(new_content)]
       ELSE [result |-> Err("EnvFile", MsgWriteEnv), fs |-> fs]

(***************************************************************************)
(* The env-file engine on its own: a file of a few lines, one binding      *)
(* (var, value), and upserts and reads of that binding.                    *)
(***************************************************************************)
LinePool ==
  {<<"A", "=", "1">>,
   <<" ", "\t", "e", "x", "p", "o", "r", "t", " ", "A", "=", "2", "=", "3">>,
   <<"#", "A", "=", "1">>,
   <<>>,
   <<"B", "=", "2">>,
   <<"A", " ", "=", "3">>,
   <<"A">>}

\* Variable names as the command line may give them
EnvVarPool ==
  {<<"A">>, <<"B">>, <<"A", "=", "B">>, <<"#", "A">>}

ValuePool == {<<"v", "=">>, <<>>}

\* How a file ends its lines, and whether its last line has a line ending
FileShapes ==
  {[eol |-> <<"\n">>, final |-> TRUE], [eol |-> <<"\n">>, final |-> FALSE],
   [eol |-> <<"\r", "\n">>, final |-> TRUE]}

\* The lines with the line ending after each, the last one only if final
RECURSIVE Compose(_, _, _)
Compose(lines, eol, final) ==
  IF Len(lines) = 0 THEN <<>>
  ELSE IF Len(lines) = 1 THEN lines[1] \o (IF final THEN eol ELSE <<>>)
  ELSE lines[1] \o eol \o Compose(Tail(lines), eol, final)

InitFiles ==
  {FileOf(Compose(ls, sh.eol, sh.final)) :
     ls \in SeqsUpTo(LinePool, MaxLines), sh \in FileShapes}
    \cup {MissingFile, UnreadableFile}

IdleEnv ==
  [fs |-> MissingFile, var |-> <<>>, value |-> <<>>, op |-> "idle", prev |-> MissingFile,
   prevOp |-> "idle", result |-> NoResult]

InitEnv ==
  /\ \E f \in InitFiles, v \in EnvVarPool, x \in ValuePool :
       env = [IdleEnv EXCEPT !.fs = f, !.var = v, !.value = x, !.op = "none",
                             !.prevOp = "none"]
  /\ codec = "idle"
  /\ intake = "idle"
  /\ cli = "idle"
  /\ lib = "idle"
  /\ mem = "idle"
  /\ race = "idle"

\* The operation before the one being taken, "failed" if it returned an error
PrevOp == IF env.op = "none" \/ env.result.ok THEN env.op ELSE "failed"

\* One call of upsert_var(path, var, value), while the file has room for a line
EnvUpsert ==
  /\ Len(Lines(env.fs.content)) <= MaxLines
  /\ \E write_ok \in BOOLEAN :
       LET r == upsert_var(env.fs, env.var, env.value, write_ok)
       IN env' = [env EXCEPT !.fs = r.fs, !.prev = env.fs, !.result = r.result,
                             !.prevOp = PrevOp,
                             !.op = "upsert"]
  /\ UNCHANGED <<codec, intake, cli, lib, mem, race>>

\* One call of read_var(path, var)
EnvRead ==
  /\ env.op # "read"
  /\ env' = [env EXCEPT !.prev = env.fs, !.result = read_var(env.fs, env.var),
                        !.prevOp = PrevOp,
                        !.op = "read"]
  /\ UNCHANGED <<codec, intake, cli, lib, mem, race>>

NextEnv == EnvUpsert \/ EnvRead

SpecEnv == InitEnv /\ [][NextEnv]_vars

(***************************************************************************)
(* Claims about the env-file engine.  They speak of the state after a      *)
(* successful upsert: env.prev is the file before it, env.fs the file      *)
(* after it.                                                               *)
(***************************************************************************)
Upserted == env.op = "upsert" /\ env.result.ok

PrevContent == IF env.prev.kind = "file" THEN env.prev.content ELSE <<>>

\* A content cut at every "\n", the piece after the last "\n" counting as a line
\* unless it is empty; a "\r" stays with its line
PhysicalLines(content) ==
  LET nl == {i \in 1..Len(content) : content[i] = "\n"}
      n == Cardinality(nl)
      last == IF n = 0 THEN 0 ELSE Nth(nl, n)
      from(k) == IF k = 1 THEN 1 ELSE Nth(nl, k - 1) + 1
      to(k) == IF k > n THEN Len(content) ELSE Nth(nl, k) - 1
  IN [k \in 1..(IF last < Len(content) THEN n + 1 ELSE n) |->
        SubSeq(content, from(k), to(k))]

\* The longest prefix of whitespace of a line
LeadingWs(line) ==
  LET k == CHOOSE m \in 0..Len(line) :
             /\ \A i \in 1..m : IsWhitespace(line[i])
             /\ (m < Len(line) => ~IsWhitespace(line[m + 1]))
  IN SubSeq(line, 1, k)

HasExport(line) ==
  StartsWith(Tail0(line, Len(LeadingWs(line))), ExportPrefix)

\* The key a line binds, <<>> when it binds none
KeyOf(line) == parse_var_line(line).key

OldLines == Lines(PrevContent)

NewLines == PhysicalLines(env.fs.content)

Matching == {i \in 1..Len(OldLines) : KeyOf(OldLines[i]) = env.var}

\* C4: every line bound to var is rewritten as <leading_ws>[export ]<var>=<value>
\* with its own whitespace and export prefix, and one line <var>=<value> is
\* appended after all lines if and only if no line was bound to var.
C4_UpsertRewritesAll ==
  Upserted =>
    /\ \A i \in Matching :
         /\ i <= Len(NewLines)
         /\ NewLines[i] = LeadingWs(OldLines[i])
                            \o (IF HasExport(OldLines[i]) THEN ExportPrefix ELSE <<>>)
                            \o env.var \o <<"=">> \o env.value
    /\ Matching # {} => Len(NewLines) = Len(OldLines)
    /\ Matching = {} =>
         /\ Len(NewLines) = Len(OldLines) + 1
         /\ NewLines[Len(NewLines)] = env.var \o <<"=">> \o env.value

C4_Witness ==
  /\ Upserted
  /\ Cardinality(Matching) = 2
  /\ \E i \in Matching : HasExport(OldLines[i]) /\ Len(LeadingWs(OldLines[i])) = 2
  /\ \A i \in Matching : NewLines[i] # OldLines[i]

\* C5 as stated: every physical line of F (cut at "\n") that is not bound to var
\* is byte-identical, at the same place, in the file written.
C5_PreservationAsStated ==
  Upserted =>
    LET old == PhysicalLines(PrevContent)
    IN \A i \in 1..Len(old) :
         KeyOf(old[i]) # env.var => (i <= Len(NewLines) /\ NewLines[i] = old[i])

\* C5 amended: every line of F that is not bound to var is byte-identical, at the
\* same place, in the file written, its line ending excepted: the line ending
\* "\r\n" of such a line is written back as "\n".
C5_Preservation ==
  Upserted =>
    \A i \in 1..Len(OldLines) :
      i \notin Matching => (i <= Len(NewLines) /\ NewLines[i] = OldLines[i])

C5_Witness ==
  /\ Upserted
  /\ Len(OldLines) = 2
  /\ Cardinality(Matching) = 1
  /\ \E i \in 1..Len(PrevContent) : PrevContent[i] = "\r"
  /\ \E i \in 1..2 : i \notin Matching /\ OldLines[i] # <<>> /\ NewLines[i] = OldLines[i]

\* C6: a second upsert of the same binding leaves the file as the first one wrote it.
C6_Idempotent ==
  (Upserted /\ env.prevOp = "upsert") => env.fs = env.prev

\* The value read_var should give: what follows the first '=' of the last line
\* bound to var
AfterFirstEq(line) == Tail0(line, Find(line, "="))

\* C7: read_var returns what follows the first '=' of the last line bound to var,
\* and absent exactly when no line is bound to var.
C7_LastWins ==
  (env.op = "read" /\ env.fs.kind = "file") =>
    LET lines == Lines(env.fs.content)
        bound == {i \in 1..Len(lines) : KeyOf(lines[i]) = env.var}
    IN /\ env.result.ok
       /\ env.result.val.some <=> bound # {}
       /\ bound # {} =>
            env.result.val.value = AfterFirstEq(lines[Nth(bound, Cardinality(bound))])

C7_Witness ==
  /\ env.op = "read"
  /\ env.fs.kind = "file"
  /\ LET lines == Lines(env.fs.content)
     IN /\ Len(lines) = 2
        /\ KeyOf(lines[1]) = env.var
        /\ KeyOf(lines[2]) = env.var
        /\ HasExport(lines[2])
        /\ parse_var_line(lines[1]).value # parse_var_line(lines[2]).value
        /\ env.result.val = [some |-> TRUE, value |-> <<"2", "=", "3">>]

\* C8 as stated: the file written ends with "\n" and the byte before is not "\n".
C8_SingleNewlineAsStated ==
  Upserted =>
    LET c == env.fs.content
    IN /\ Len(c) >= 1
       /\ c[Len(c)] = "\n"
       /\ Len(c) >= 2 => c[Len(c) - 1] # "\n"

\* C8 amended: the file written is its lines joined by "\n" with one "\n" pushed
\* after them, so it ends with "\n"; the byte before is "\n" too exactly when the
\* last line of the prior content is empty and some line was bound to var.
C8_TrailingNewline ==
  Upserted =>
    LET c == env.fs.content
    IN /\ Len(c) >= 2
       /\ c[Len(c)] = "\n"
       /\ c[Len(c) - 1] = "\n" <=>
            (Len(OldLines) > 0 /\ OldLines[Len(OldLines)] = <<>> /\ Matching # {})

C8_Witness ==
  /\ Upserted
  /\ Len(OldLines) = 2
  /\ OldLines[2] = <<>>
  /\ Matching = {1}
  /\ env.fs.content[Len(env.fs.content) - 1] = "\n"

(***************************************************************************)
(* src/input.rs                                                            *)
(***************************************************************************)
MsgValueRequired ==
  "value required; choose exactly one of --stdin, --value (with --allow-argv), or --value-file"
MsgNeedAllowArgv == "--value requires --allow-argv"
MsgReadStdin == "failed to read stdin"
MsgReadValueFile == "failed to read value file"
MsgReadKeyFile == "failed to read key file"
MsgOneKeySource ==
  "choose exactly one key source: --key, --key-file, --key-stdin, or SEALED_KEY"

\* Option<T>
None == [some |-> FALSE, v |-> <<>>]

Some(x) == [some |-> TRUE, v |-> x]

\* Standard input: what it holds, or a read error
StdinOf(content) == [ok |-> TRUE, content |-> content]

StdinBroken == [ok |-> FALSE, content |-> <<>>]

IsNewline(c) == c \in {"\n", "\r"}

\* trim_end_newlines: s.trim_end_matches(['\n', '\r'])
trim_end_newlines(s) ==
  LET solid == {i \in 1..Len(s) : ~IsNewline(s[i])}
  IN IF solid = {} THEN <<>> ELSE SubSeq(s, 1, Nth(solid, Cardinality(solid)))

\* read_stdin
read_stdin(stdin) == IF stdin.ok THEN Ok(stdin.content) ELSE Err("Arg", MsgReadStdin)

Count(flags) == Cardinality({i \in 1..Len(flags) : flags[i]})

\* read_value; args.value_file holds the file its path names
read_value(args, stdin) ==
  IF Count(<<args.stdin, args.value.some, args.value_file.some>>) # 1
    THEN Err("Arg", MsgValueRequired)
  ELSE IF args.value.some /\ ~args.allow_argv THEN Err("Arg", MsgNeedAllowArgv)
  ELSE IF args.stdin THEN
    LET raw == read_stdin(stdin)
    IN IF ~raw.ok THEN raw ELSE Ok(trim_end_newlines(raw.val))
  ELSE IF args.value_file.some THEN
    IF args.value_file.v.kind # "file" THEN Err("Arg", MsgReadValueFile)
    ELSE Ok(trim_end_newlines(args.value_file.v.content))
  ELSE Ok(args.value.v)

\* env::var("SEALED_KEY").ok().filter(|s| !s.is_empty())
EnvKey(sealed_key) ==
  IF sealed_key.some /\ Len(sealed_key.v) > 0 THEN sealed_key ELSE None

\* KeyInput
KeyInputOf(kind, payload) == [kind |-> kind, payload |-> payload]

\* Mutant of select_key_input: the first source present is taken, in the order
\* --key, --key-file, --key-stdin, SEALED_KEY
select_key_input_FirstPresent(key, key_file, key_stdin, sealed_key) ==
  LET env_key == EnvKey(sealed_key)
  IN IF key.some THEN Ok(Some(KeyInputOf("Direct", key.v)))
     ELSE IF key_file.some THEN Ok(Some(KeyInputOf("File", key_file.v)))
     ELSE IF key_stdin THEN Ok(Some(KeyInputOf("Stdin", <<>>)))
     ELSE IF env_key.some THEN Ok(Some(KeyInputOf("Env", env_key.v)))
     ELSE Ok(None)

\* select_key_input; sealed_key is the SEALED_KEY of the process environment
select_key_input(key, key_file, key_stdin, sealed_key) ==
  LET env_key == EnvKey(sealed_key)
  IN IF Count(<<key.some, key_file.some, key_stdin, env_key.some>>) > 1
       THEN Err("Arg", MsgOneKeySource)
     ELSE IF key.some THEN Ok(Some(KeyInputOf("Direct", key.v)))
     ELSE IF key_file.some THEN Ok(Some(KeyInputOf("File", key_file.v)))
     ELSE IF key_stdin THEN Ok(Some(KeyInputOf("Stdin", <<>>)))
     ELSE IF env_key.some THEN Ok(Some(KeyInputOf("Env", env_key.v)))
     ELSE Ok(None)

\* The match of read_key: the base64 text handed to decode_key
KeyText(input, stdin) ==
  IF input.kind \in {"Direct", "Env"} THEN Ok(input.payload)
  ELSE IF input.kind = "File" THEN
    IF input.payload.kind # "file" THEN Err("Arg", MsgReadKeyFile)
    ELSE Ok(trim_end_newlines(input.payload.content))
  ELSE
    LET raw == read_stdin(stdin)
    IN IF ~raw.ok THEN raw ELSE Ok(trim_end_newlines(raw.val))

\* read_key
read_key(input, stdin) ==
  LET b64 == KeyText(input, stdin)
  IN IF ~b64.ok THEN b64 ELSE decode_key(b64.val)

(***************************************************************************)
(* The intake on its own: one raw content reaches read_value or read_key   *)
(* through one of the sources.                                             *)
(***************************************************************************)
Key1B64 == B64Encode(Key1)

RawPool ==
  {<<>>, <<"s">>, <<"s", "\n">>, <<"s", "\r", "\n">>, <<"a", "\n", "b">>,
   <<"a", "\r", "b", "\n", "\n">>, <<"\n">>, <<"s", "\n", "\r", "\r", "\n">>,
   Key1B64, Key1B64 \o <<"\n">>, Key1B64 \o <<"\r", "\n">>}

ValueSources == {"stdin", "file", "argv"}

KeySources == {"Direct", "File", "Stdin", "Env"}

IdleIntake ==
  [pc |-> "idle", what |-> "none", source |-> "none", raw |-> <<>>, used |-> NoResult,
   result |-> NoResult]

InitIntake ==
  /\ \E w \in {"value", "key"}, raw \in RawPool :
       \E src \in IF w = "value" THEN ValueSources ELSE KeySources :
         intake = [IdleIntake EXCEPT !.pc = "start", !.what = w, !.source = src,
                                     !.raw = raw]
  /\ codec = "idle"
  /\ env = "idle"
  /\ cli = "idle"
  /\ lib = "idle"
  /\ mem = "idle"
  /\ race = "idle"

NoValueArgs ==
  [stdin |-> FALSE, value |-> None, value_file |-> None, allow_argv |-> FALSE]

\* read_value on the raw content, given through the source
IntakeReadValue ==
  /\ intake.pc = "start"
  /\ intake.what = "value"
  /\ \E readable \in BOOLEAN :
       LET raw == intake.raw
           args == IF intake.source = "stdin" THEN [NoValueArgs EXCEPT !.stdin = TRUE]
                   ELSE IF intake.source = "file" THEN
                     [NoValueArgs EXCEPT
                        !.value_file = Some(IF readable THEN FileOf(raw) ELSE UnreadableFile)]
                   ELSE [NoValueArgs EXCEPT !.value = Some(raw), !.allow_argv = TRUE]
           r == read_value(args, IF readable THEN StdinOf(raw) ELSE StdinBroken)
       IN intake' = [intake EXCEPT !.pc = "done", !.used = r, !.result = r]
  /\ UNCHANGED <<codec, env, cli, lib, mem, race>>

\* select_key_input and read_key on the raw content, given through the source
IntakeReadKey ==
  /\ intake.pc = "start"
  /\ intake.what = "key"
  /\ \E readable \in BOOLEAN :
       LET raw == intake.raw
           stdin == IF readable THEN StdinOf(raw) ELSE StdinBroken
           sel == select_key_input(
                    IF intake.source = "Direct" THEN Some(raw) ELSE None,
                    IF intake.source = "File"
                      THEN Some(IF readable THEN FileOf(raw) ELSE UnreadableFile)
                      ELSE None,
                    intake.source = "Stdin",
                    IF intake.source = "Env" THEN Some(raw) ELSE None)
       IN IF sel.ok /\ sel.val.some
            THEN intake' = [intake EXCEPT !.pc = "done",
                                          !.used = KeyText(sel.val.v, stdin),
                                          !.result = read_key(sel.val.v, stdin)]
            ELSE intake' = [intake EXCEPT !.pc = "nokey"]
  /\ UNCHANGED <<codec, env, cli, lib, mem, race>>

NextIntake == IntakeReadValue \/ IntakeReadKey

SpecIntake == InitIntake /\ [][NextIntake]_vars

\* used is raw without its trailing "\n" and "\r", every other byte kept
Stripped(raw, used) ==
  \E k \in 0..Len(raw) :
    /\ used = SubSeq(raw, 1, k)
    /\ \A i \in (k + 1)..Len(raw) : IsNewline(raw[i])
    /\ k > 0 => ~IsNewline(raw[k])

TrimmedSources == {"stdin", "file", "Stdin", "File", "Env"}

\* C10: a value from stdin or a file, and a key from stdin, a file or SEALED_KEY,
\* is used without its trailing "\n" and "\r" and with every other byte kept; so
\* a SEALED_KEY holding a valid base64 key and a newline is accepted.
C10_NewlineTrimming ==
  (intake.pc = "done" /\ intake.source \in TrimmedSources /\ intake.used.ok) =>
    /\ Stripped(intake.raw, intake.used.val)
    /\ (intake.what = "key" /\ trim_end_newlines(intake.raw) = Key1B64) => intake.result.ok

(***************************************************************************)
(* cli/src/main.rs and src/error.rs                                        *)
(***************************************************************************)
MsgStdinTwice ==
  "stdin may be used only once; --stdin and --key-stdin cannot be used together"
MsgKeyRequired == "key required; provide --key, --key-file, --key-stdin, or set SEALED_KEY"
MsgVarNotFound == "variable not found"
MsgNeedsKey ==
  "encrypted value requires a key; provide --key, --key-file, --key-stdin, or set SEALED_KEY"
MsgNotUtf8 == "decrypted value is not valid UTF-8"
MsgSuppressed == "value is encrypted; use --reveal to print plaintext"

\* SealedError::exit_code
exit_code(kind) ==
  CASE kind = "VarNotFound" -> 1
    [] kind = "Crypto" -> 2
    [] kind = "Arg" -> 3
    [] kind = "EnvFile" -> 4

\* main: the exit code of a run
ExitOf(result) == IF result.ok THEN 0 ELSE exit_code(result.kind)

\* String::from_utf8 on bytes: every byte below 128 is a character of its own
FromUtf8(bytes) ==
  IF \E i \in 1..Len(bytes) : bytes[i] >= 128 THEN [ok |-> FALSE, text |-> <<>>]
  ELSE [ok |-> TRUE,
        text |-> [i \in 1..Len(bytes) |-> CHOOSE c \in Chars : Ord[c] = bytes[i]]]

\* What a run leaves behind: its result, the env file, stdout and the notice on stderr
Outcome(result, fs, out, notice) ==
  [result |-> result, fs |-> fs, stdout |-> out, notice |-> notice]

\* run_set; rng and write_ok are the outcomes of OsRng and fs::write
run_set(args, sealed_key, stdin, fs, rng, write_ok) ==
  IF args.stdin /\ args.key_stdin THEN Outcome(Err("Arg", MsgStdinTwice), fs, <<>>, "")
  ELSE
    LET plaintext == read_value(args, stdin)
    IN IF ~plaintext.ok THEN Outcome(plaintext, fs, <<>>, "")
       ELSE
         LET sel == select_key_input(args.key, args.key_file, args.key_stdin, sealed_key)
         IN IF ~sel.ok THEN Outcome(sel, fs, <<>>, "")
            ELSE IF ~sel.val.some THEN Outcome(Err("Arg", MsgKeyRequired), fs, <<>>, "")
            ELSE
              LET key == read_key(sel.val.v, stdin)
              IN IF ~key.ok THEN Outcome(key, fs, <<>>, "")
                 ELSE
                   LET encrypted == encrypt_value(key.val, args.var_name, plaintext.val, rng)
                   IN IF ~encrypted.ok THEN Outcome(encrypted, fs, <<>>, "")
                      ELSE
                        LET up == upsert_var(fs, args.var_name, encrypted.val, write_ok)
                        IN Outcome(up.result, up.fs, <<>>, "")

\* Mutant of run_get: the plaintext is printed whether or not reveal is set
run_get_RevealAlways(args, sealed_key, stdin, fs) ==
  LET found == read_var(fs, args.var_name)
  IN IF ~found.ok THEN Outcome(found, fs, <<>>, "")
     ELSE IF ~found.val.some THEN Outcome(Err("VarNotFound", MsgVarNotFound), fs, <<>>, "")
     ELSE
       LET value == found.val.value
       IN IF ~is_encrypted(value) THEN Outcome(Ok(<<>>), fs, value \o <<"\n">>, "")
          ELSE
            LET sel == select_key_input(args.key, args.key_file, args.key_stdin, sealed_key)
            IN IF ~sel.ok THEN Outcome(sel, fs, <<>>, "")
               ELSE IF ~sel.val.some THEN Outcome(Err("Crypto", MsgNeedsKey), fs, <<>>, "")
               ELSE
                 LET key == read_key(sel.val.v, stdin)
                 IN IF ~key.ok THEN Outcome(key, fs, <<>>, "")
                    ELSE
                      LET decrypted == decrypt_value(key.val, args.var_name, value)
                      IN IF ~decrypted.ok THEN Outcome(decrypted, fs, <<>>, "")
                         ELSE IF TRUE THEN
                           LET plaintext == FromUtf8(decrypted.val)
                           IN IF ~plaintext.ok
                                THEN Outcome(Err("Crypto", MsgNotUtf8), fs, <<>>, "")
                                ELSE Outcome(Ok(<<>>), fs, plaintext.text \o <<"\n">>, "")
                         ELSE Outcome(Ok(<<>>), fs, <<>>, MsgSuppressed)

\* run_get
run_get(args, sealed_key, stdin, fs) ==
  LET found == read_var(fs, args.var_name)
  IN IF ~found.ok THEN Outcome(found, fs, <<>>, "")
     ELSE IF ~found.val.some THEN Outcome(Err("VarNotFound", MsgVarNotFound), fs, <<>>, "")
     ELSE
       LET value == found.val.value
       IN IF ~is_encrypted(value) THEN Outcome(Ok(<<>>), fs, value \o <<"\n">>, "")
          ELSE
            LET sel == select_key_input(args.key, args.key_file, args.key_stdin, sealed_key)
            IN IF ~sel.ok THEN Outcome(sel, fs, <<>>, "")
               ELSE IF ~sel.val.some THEN Outcome(Err("Crypto", MsgNeedsKey), fs, <<>>, "")
               ELSE
                 LET key == read_key(sel.val.v, stdin)
                 IN IF ~key.ok THEN Outcome(key, fs, <<>>, "")
                    ELSE
                      LET decrypted == decrypt_value(key.val, args.var_name, value)
                      IN IF ~decrypted.ok THEN Outcome(decrypted, fs, <<>>, "")
                         ELSE IF args.reveal THEN
                           LET plaintext == FromUtf8(decrypted.val)
                           IN IF ~plaintext.ok
                                THEN Outcome(Err("Crypto", MsgNotUtf8), fs, <<>>, "")
                                ELSE Outcome(Ok(<<>>), fs, plaintext.text \o <<"\n">>, "")
                         ELSE Outcome(Ok(<<>>), fs, <<>>, MsgSuppressed)

(***************************************************************************)
(* One invocation of the CLI: the arguments clap accepted, the SEALED_KEY  *)
(* of the environment, standard input and the env file.                    *)
(***************************************************************************)
Key2B64 == B64Encode(Key2)

SecretText == <<"s", "3">>

\* The secret sealed under Key1 for the variable A
SealedA == encrypt_value(Key1, <<"A">>, SecretText, [ok |-> TRUE, bytes |-> Nonce1]).val

\* A value sealed under Key1 for A whose plaintext is one byte that is not UTF-8
SealedBinary ==
  SealedPrefix \o B64Encode(Nonce2) \o <<":">>
    \o B64Encode(AeadEncrypt(Key1, Nonce2, Aad(<<"A">>), <<200>>))

CliEnvFiles ==
  {MissingFile, UnreadableFile,
   FileOf(<<"A", "=", "h", "i", "\n">>),
   FileOf(<<"e", "x", "p", "o", "r", "t", " ", "A", "=">> \o SealedA \o <<"\n">>),
   FileOf(<<"A", "=">> \o SealedBinary \o <<"\n">>)}

CliVarPool == {<<"A">>, <<"B">>}

KeyArgPool == {None, Some(Key1B64), Some(Key2B64)}

KeyFilePool == {None, Some(FileOf(Key1B64 \o <<"\n">>)), Some(UnreadableFile)}

SealedKeyPool == {None, Some(<<>>), Some(Key1B64), Some(Key1B64 \o <<"\n">>)}

StdinPool == {StdinOf(Key1B64 \o <<"\n">>), StdinOf(<<"p", "w", "\n">>)}

\* The value sources clap's group value_input lets through: exactly one of them
ValueArgPool ==
  {[stdin |-> TRUE, value |-> None, value_file |-> None, allow_argv |-> FALSE],
   [stdin |-> FALSE, value |-> Some(<<"p", "w">>), value_file |-> None, allow_argv |-> TRUE],
   [stdin |-> FALSE, value |-> Some(<<"p", "w">>), value_file |-> None, allow_argv |-> FALSE],
   [stdin |-> FALSE, value |-> None, value_file |-> Some(FileOf(<<"p", "w", "\n">>)),
    allow_argv |-> FALSE]}

SetArgsPool ==
  {[var_name |-> n, stdin |-> a.stdin, value |-> a.value, value_file |-> a.value_file,
    allow_argv |-> a.allow_argv, key |-> k, key_file |-> kf, key_stdin |-> ks,
    reveal |-> FALSE] :
     n \in CliVarPool, a \in ValueArgPool, k \in KeyArgPool, kf \in KeyFilePool,
     ks \in BOOLEAN}

GetArgsPool ==
  {[var_name |-> n, stdin |-> FALSE, value |-> None, value_file |-> None,
    allow_argv |-> FALSE, key |-> k, key_file |-> kf, key_stdin |-> ks, reveal |-> r] :
     n \in CliVarPool, k \in KeyArgPool, kf \in KeyFilePool, ks \in BOOLEAN,
     r \in BOOLEAN}

IdleCli ==
  [pc |-> "idle", cmd |-> "none", args |-> <<>>, sealed_key |-> None,
   stdin |-> StdinBroken, fs |-> MissingFile, before |-> MissingFile,
   result |-> NoResult, stdout |-> <<>>, notice |-> "", exit |-> 0]

InitCli ==
  /\ \E cmd \in {"set", "get"}, sk \in SealedKeyPool, in \in StdinPool, f \in CliEnvFiles :
       \E a \in IF cmd = "set" THEN SetArgsPool ELSE GetArgsPool :
         cli = [IdleCli EXCEPT !.pc = "start", !.cmd = cmd, !.args = a, !.sealed_key = sk,
                               !.stdin = in, !.fs = f, !.before = f]
  /\ codec = "idle"
  /\ env = "idle"
  /\ intake = "idle"
  /\ lib = "idle"
  /\ mem = "idle"
  /\ race = "idle"

Finish(o) ==
  cli' = [cli EXCEPT !.pc = "done", !.result = o.result, !.fs = o.fs, !.stdout = o.stdout,
                     !.notice = o.notice, !.exit = ExitOf(o.result)]

\* sealed set <VAR> ...
RunSet ==
  /\ cli.pc = "start"
  /\ cli.cmd = "set"
  /\ \E rng \in RngOutcomes, write_ok \in BOOLEAN :
       Finish(run_set(cli.args, cli.sealed_key, cli.stdin, cli.fs, rng, write_ok))
  /\ UNCHANGED <<codec, env, intake, lib, mem, race>>

\* sealed get <VAR> ...
RunGet ==
  /\ cli.pc = "start"
  /\ cli.cmd = "get"
  /\ Finish(run_get(cli.args, cli.sealed_key, cli.stdin, cli.fs))
  /\ UNCHANGED <<codec, env, intake, lib, mem, race>>

NextCli == RunSet \/ RunGet

SpecCli == InitCli /\ [][NextCli]_vars

\* The key sources present in the invocation
KeySourceCount ==
  Count(<<cli.args.key.some, cli.args.key_file.some, cli.args.key_stdin,
          EnvKey(cli.sealed_key).some>>)

FailedArg == ~cli.result.ok /\ cli.result.kind = "Arg" /\ cli.exit = 3

Untouched == cli.fs = cli.before /\ cli.stdout = <<>>

\* C9 as stated: with more than one key source present, set and get fail with an
\* Arg error (exit code 3) and use none of them, whatever the stored value is.
C9_ExclusiveAsStated ==
  (cli.pc = "done" /\ KeySourceCount > 1) => (FailedArg /\ Untouched)

\* C9 amended: with more than one key source present, set always fails with an Arg
\* error (exit code 3) and leaves the env file alone; get fails so when the env
\* file is readable and the last binding of the variable is sealed.  A get of a
\* value that is not sealed prints it and exits 0, a get of an unbound variable
\* fails with VarNotFound (exit code 1) and a get on an unreadable env file with
\* EnvFile (exit code 4), without any look at the key sources.
C9_Exclusive ==
  (cli.pc = "done" /\ KeySourceCount > 1) =>
    LET found == read_var(cli.before, cli.args.var_name)
    IN /\ cli.cmd = "set" => (FailedArg /\ Untouched)
       /\ (cli.cmd = "get" /\ ~found.ok) => (cli.exit = 4 /\ Untouched)
       /\ (cli.cmd = "get" /\ found.ok /\ ~found.val.some) => (cli.exit = 1 /\ Untouched)
       /\ (cli.cmd = "get" /\ found.ok /\ found.val.some) =>
            IF is_encrypted(found.val.value) THEN FailedArg /\ Untouched
            ELSE cli.exit = 0 /\ cli.stdout = found.val.value \o <<"\n">>

C9_Witness ==
  /\ cli.pc = "done"
  /\ cli.cmd = "get"
  /\ cli.args.key.some
  /\ EnvKey(cli.sealed_key).some
  /\ is_encrypted(read_var(cli.before, cli.args.var_name).val.value)
  /\ FailedArg

(***************************************************************************)
(* lib/src/lib.rs: the embedded read API.  Its decode_key, decrypt_value,  *)
(* parse_encrypted and is_encrypted (lib.rs 158-232) are the text of       *)
(* cli/src/crypto.rs with SealedEnvError::Crypto for SealedError::Crypto.  *)
(***************************************************************************)
MsgVarNotSet == "environment variable is not set"
MsgVarNotEncrypted == "environment variable is not encrypted"
MsgKeyNotSet == "SEALED_KEY is not set"

\* A variable of the process environment as std::env::var sees it: not present,
\* holding text, or holding bytes that are not valid Unicode
EnvAbsent == [state |-> "absent", text |-> <<>>]

EnvText(s) == [state |-> "text", text |-> s]

EnvNotUnicode == [state |-> "not_unicode", text |-> <<>>]

\* What a call returns, whether it called env::var("SEALED_KEY"), and whether it
\* handed the value to decrypt_value
LibOutcome(result, key_read, decrypt_called) ==
  [result |-> result, key_read |-> key_read, decrypt_called |-> decrypt_called]

\* The steps the three functions share once the value is known to be sealed:
\* read SEALED_KEY, decode_key, decrypt_value, String::from_utf8
DecryptWithEnvKey(name, value, sealed_key) ==
  IF sealed_key.state # "text" THEN LibOutcome(Err("MissingKey", MsgKeyNotSet), TRUE, FALSE)
  ELSE
    LET key == decode_key(sealed_key.text)
    IN IF ~key.ok THEN LibOutcome(key, TRUE, FALSE)
       ELSE
         LET decrypted == decrypt_value(key.val, name, value)
         IN IF ~decrypted.ok THEN LibOutcome(decrypted, TRUE, TRUE)
            ELSE
              LET plaintext == FromUtf8(decrypted.val)
              IN IF ~plaintext.ok THEN LibOutcome(Err("Crypto", MsgNotUtf8), TRUE, TRUE)
                 ELSE LibOutcome(Ok(plaintext.text), TRUE, TRUE)

\* var
var(name, value, sealed_key) ==
  IF value.state # "text" THEN LibOutcome(Err("MissingVar", MsgVarNotSet), FALSE, FALSE)
  ELSE IF ~is_encrypted(value.text)
    THEN LibOutcome(Err("NotEncrypted", MsgVarNotEncrypted), FALSE, FALSE)
  ELSE DecryptWithEnvKey(name, value.text, sealed_key)

\* Mutant of var_or_plain: SEALED_KEY is read before the value is looked at
var_or_plain_KeyFirst(name, value, sealed_key) ==
  IF value.state # "text" THEN LibOutcome(Err("MissingVar", MsgVarNotSet), FALSE, FALSE)
  ELSE IF sealed_key.state # "text"
    THEN LibOutcome(Err("MissingKey", MsgKeyNotSet), TRUE, FALSE)
  ELSE IF ~is_encrypted(value.text) THEN LibOutcome(Ok(value.text), TRUE, FALSE)
  ELSE DecryptWithEnvKey(name, value.text, sealed_key)

\* var_or_plain
var_or_plain(name, value, sealed_key) ==
  IF value.state # "text" THEN LibOutcome(Err("MissingVar", MsgVarNotSet), FALSE, FALSE)
  ELSE IF ~is_encrypted(value.text) THEN LibOutcome(Ok(value.text), FALSE, FALSE)
  ELSE DecryptWithEnvKey(name, value.text, sealed_key)

\* .map(Some) on the Result of the shared steps
MapSome(o) ==
  IF o.result.ok THEN [o EXCEPT !.result = Ok(Some(o.result.val))] ELSE o

\* var_optional
var_optional(name, value, sealed_key) ==
  IF value.state = "absent" THEN LibOutcome(Ok(None), FALSE, FALSE)
  ELSE IF value.state = "not_unicode"
    THEN LibOutcome(Err("MissingVar", MsgVarNotSet), FALSE, FALSE)
  ELSE IF ~is_encrypted(value.text) THEN LibOutcome(Ok(Some(value.text)), FALSE, FALSE)
  ELSE MapSome(DecryptWithEnvKey(name, value.text, sealed_key))

(***************************************************************************)
(* One call of the embedded API in one state of the process environment.   *)
(***************************************************************************)
LibNamePool == {<<"A">>, <<"B">>}

LibValuePool ==
  {EnvAbsent, EnvNotUnicode, EnvText(<<>>), EnvText(<<"h", "i">>),
   EnvText(<<"E", "N", "C", "v", "1">>), EnvText(SealedPrefix \o <<"x">>),
   EnvText(SealedA), EnvText(SealedBinary)}

LibKeyPool ==
  {EnvAbsent, EnvNotUnicode, EnvText(<<>>), EnvText(Key1B64), EnvText(Key2B64)}

IdleLib ==
  [pc |-> "idle", fn |-> "none", name |-> <<>>, value |-> EnvAbsent,
   sealed_key |-> EnvAbsent, out |-> LibOutcome(NoResult, FALSE, FALSE)]

InitLib ==
  /\ \E n \in LibNamePool, v \in LibValuePool, k \in LibKeyPool :
       lib = [IdleLib EXCEPT !.pc = "start", !.name = n, !.value = v, !.sealed_key = k]
  /\ codec = "idle"
  /\ env = "idle"
  /\ intake = "idle"
  /\ cli = "idle"
  /\ mem = "idle"
  /\ race = "idle"

LibVar ==
  /\ lib.pc = "start"
  /\ lib' = [lib EXCEPT !.pc = "done", !.fn = "var",
                        !.out = var(lib.name, lib.value, lib.sealed_key)]
  /\ UNCHANGED <<codec, env, intake, cli, mem, race>>

LibVarOrPlain ==
  /\ lib.pc = "start"
  /\ lib' = [lib EXCEPT !.pc = "done", !.fn = "var_or_plain",
                        !.out = var_or_plain(lib.name, lib.value, lib.sealed_key)]
  /\ UNCHANGED <<codec, env, intake, cli, mem, race>>

LibVarOptional ==
  /\ lib.pc = "start"
  /\ lib' = [lib EXCEPT !.pc = "done", !.fn = "var_optional",
                        !.out = var_optional(lib.name, lib.value, lib.sealed_key)]
  /\ UNCHANGED <<codec, env, intake, cli, mem, race>>

NextLib == LibVar \/ LibVarOrPlain \/ LibVarOptional

SpecLib == InitLib /\ [][NextLib]_vars

(***************************************************************************)
(* C11: outcomes of the embedded read API.                                 *)
(***************************************************************************)
\* A variable counts as sealed when it holds text that starts with ENCv1:
LibSealed(v) == v.state = "text" /\ is_encrypted(v.text)

\* The decode result: the key decoded from SEALED_KEY, the value opened with it
\* under the variable name, the plaintext read as UTF-8
LibDecodeResult(name, text, key_text) ==
  LET key == decode_key(key_text)
  IN IF ~key.ok THEN key
     ELSE
       LET decrypted == decrypt_value(key.val, name, text)
       IN IF ~decrypted.ok THEN decrypted
          ELSE IF \E i \in 1..Len(decrypted.val) : decrypted.val[i] >= 128
            THEN Err("Crypto", MsgNotUtf8)
          ELSE Ok(FromUtf8(decrypted.val).text)

\* The sentence read literally: absent means not set, anything else is present
LibStatedVar(name, v, k) ==
  IF v.state = "absent" THEN Err("MissingVar", MsgVarNotSet)
  ELSE IF ~LibSealed(v) THEN Err("NotEncrypted", MsgVarNotEncrypted)
  ELSE IF k.state = "absent" THEN Err("MissingKey", MsgKeyNotSet)
  ELSE LibDecodeResult(name, v.text, k.text)

LibStatedVarOrPlain(name, v, k) ==
  IF v.state # "absent" /\ ~LibSealed(v) THEN Ok(v.text) ELSE LibStatedVar(name, v, k)

LibStatedVarOptional(name, v, k) ==
  IF v.state = "absent" THEN Ok(None)
  ELSE
    LET r == LibStatedVarOrPlain(name, v, k)
    IN IF r.ok THEN Ok(Some(r.val)) ELSE r

\* The same with a variable that does not hold valid Unicode: as a value it is
\* reported as not set (by var_optional too), as SEALED_KEY it counts as unset
LibExpectedVar(name, v, k) ==
  IF v.state # "text" THEN Err("MissingVar", MsgVarNotSet)
  ELSE IF ~LibSealed(v) THEN Err("NotEncrypted", MsgVarNotEncrypted)
  ELSE IF k.state # "text" THEN Err("MissingKey", MsgKeyNotSet)
  ELSE LibDecodeResult(name, v.text, k.text)

LibExpectedVarOrPlain(name, v, k) ==
  IF v.state = "text" /\ ~LibSealed(v) THEN Ok(v.text) ELSE LibExpectedVar(name, v, k)

LibExpectedVarOptional(name, v, k) ==
  IF v.state = "absent" THEN Ok(None)
  ELSE
    LET r == LibExpectedVarOrPlain(name, v, k)
    IN IF r.ok THEN Ok(Some(r.val)) ELSE r

GetFound == read_var(cli.before, cli.args.var_name)

GetBound == GetFound.ok /\ GetFound.val.some

GetSealed == GetBound /\ is_encrypted(GetFound.val.value)

\* The stored value opened with the key of the one key source of the invocation
GetOpened ==
  LET sel == select_key_input(cli.args.key, cli.args.key_file, cli.args.key_stdin,
                              cli.sealed_key)
  IN IF ~sel.ok THEN sel
     ELSE IF ~sel.val.some THEN Err("Crypto", MsgNeedsKey)
     ELSE
       LET key == read_key(sel.val.v, cli.stdin)
       IN IF ~key.ok THEN key
          ELSE decrypt_value(key.val, cli.args.var_name, GetFound.val.value)

GetOpenedAsText == GetOpened.ok /\ FromUtf8(GetOpened.val).ok

\* C12: get writes to stdout in two cases only: the stored value does not start
\* with ENCv1: (it is printed as it is, whatever the key sources, exit 0), or it
\* is sealed, opens and is UTF-8 and reveal is set (the plaintext and one newline
\* are printed).  For a sealed value without reveal nothing goes to stdout and a
\* successful run leaves only the notice on stderr; a sealed value with no key
\* source fails with Crypto (exit 2) and a variable without a binding in the env
\* file fails with VarNotFound (exit 1).
C12_OutputRouting ==
  (cli.pc = "done" /\ cli.cmd = "get") =>
    /\ cli.stdout # <<>> =>
         \/ GetBound /\ ~GetSealed
         \/ GetSealed /\ cli.args.reveal /\ GetOpenedAsText
    /\ (GetBound /\ ~GetSealed) =>
         /\ cli.stdout = GetFound.val.value \o <<"\n">>
         /\ cli.notice = ""
         /\ cli.exit = 0
    /\ (GetSealed /\ cli.args.reveal /\ GetOpenedAsText) =>
         /\ cli.stdout = FromUtf8(GetOpened.val).text \o <<"\n">>
         /\ cli.notice = ""
         /\ cli.exit = 0
    /\ (GetSealed /\ ~cli.args.reveal) =>
         /\ cli.stdout = <<>>
         /\ cli.result.ok <=> GetOpened.ok
         /\ cli.result.ok <=> cli.notice = MsgSuppressed
    /\ cli.notice # "" => (GetSealed /\ ~cli.args.reveal)
    /\ (GetSealed /\ KeySourceCount = 0) =>
         (~cli.result.ok /\ cli.result.kind = "Crypto" /\ cli.exit = 2)
    /\ (GetFound.ok /\ ~GetFound.val.some) =>
         (~cli.result.ok /\ cli.result.kind = "VarNotFound" /\ cli.exit = 1)

\* get --reveal of the sealed binding with the right key: the secret on stdout
C12_Witness ==
  /\ cli.pc = "done"
  /\ cli.cmd = "get"
  /\ GetSealed
  /\ cli.args.reveal
  /\ KeySourceCount = 1
  /\ cli.stdout = SecretText \o <<"\n">>
  /\ cli.notice = ""
  /\ cli.exit = 0

(***************************************************************************)
(* The buffers set, get and keygen release: for every String, Vec or array *)
(* that goes out of scope outside a secret container, what it held and     *)
(* whether zeroize() ran on it first.  SecretString and SecretSlice zero   *)
(* themselves on drop and are not listed.                                  *)
(***************************************************************************)
Buffer(name, held, zeroized) == [name |-> name, held |-> held, zeroized |-> zeroized]

\* read_stdin: `input` is returned on success and dropped by the ? on a read
\* error, with whatever read_to_string had appended to it by then
read_stdin_buffers(stdin, partial) ==
  IF stdin.ok THEN {} ELSE {Buffer("read_stdin::input", partial, FALSE)}

\* decode_key: `decoded` moves into the SecretSlice, or is dropped by the return
\* on a wrong length
decode_key_buffers(b64) ==
  LET d == B64Decode(b64)
  IN IF d.ok /\ Len(d.bytes) # KeyLen
       THEN {Buffer("decode_key::decoded", d.bytes, FALSE)}
       ELSE {}

\* read_key: `raw` of the File and Stdin arms, then decode_key
read_key_buffers(input, stdin, partial) ==
  IF input.kind \in {"Direct", "Env"} THEN decode_key_buffers(input.payload)
  ELSE IF input.kind = "File" THEN
    IF input.payload.kind # "file" THEN {}
    ELSE {Buffer("read_key::raw", input.payload.content, TRUE)}
           \cup decode_key_buffers(trim_end_newlines(input.payload.content))
  ELSE
    IF ~stdin.ok THEN read_stdin_buffers(stdin, partial)
    ELSE {Buffer("read_key::raw", stdin.content, TRUE)}
           \cup decode_key_buffers(trim_end_newlines(stdin.content))

\* read_value: `raw` of the stdin and value-file arms
read_value_buffers(args, stdin, partial) ==
  IF Count(<<args.stdin, args.value.some, args.value_file.some>>) # 1 THEN {}
  ELSE IF args.value.some /\ ~args.allow_argv THEN {}
  ELSE IF args.stdin THEN
    IF ~stdin.ok THEN read_stdin_buffers(stdin, partial)
    ELSE {Buffer("read_value::raw", stdin.content, TRUE)}
  ELSE IF args.value_file.some THEN
    IF args.value_file.v.kind # "file" THEN {}
    ELSE {Buffer("read_value::raw", args.value_file.v.content, TRUE)}
  ELSE {}

\* run_set
run_set_buffers(args, sealed_key, stdin, partial) ==
  IF args.stdin /\ args.key_stdin THEN {}
  ELSE
    LET plaintext == read_value(args, stdin)
        value_bufs == read_value_buffers(args, stdin, partial)
    IN IF ~plaintext.ok THEN value_bufs
       ELSE
         LET sel == select_key_input(args.key, args.key_file, args.key_stdin, sealed_key)
         IN IF ~sel.ok \/ ~sel.val.some THEN value_bufs
            ELSE value_bufs \cup read_key_buffers(sel.val.v, stdin, partial)

\* run_get: the key buffers, and the to_vec() copy of the decrypted bytes that
\* String::from_utf8 consumes; the copy is dropped inside the FromUtf8Error or
\* as `plaintext` at the end of the function
run_get_buffers(args, sealed_key, stdin, fs, partial) ==
  LET found == read_var(fs, args.var_name)
  IN IF ~found.ok THEN {}
     ELSE IF ~found.val.some THEN {}
     ELSE IF ~is_encrypted(found.val.value) THEN {}
     ELSE
       LET sel == select_key_input(args.key, args.key_file, args.key_stdin, sealed_key)
       IN IF ~sel.ok \/ ~sel.val.some THEN {}
          ELSE
            LET key == read_key(sel.val.v, stdin)
                key_bufs == read_key_buffers(sel.val.v, stdin, partial)
            IN IF ~key.ok THEN key_bufs
               ELSE
                 LET decrypted == decrypt_value(key.val, args.var_name, found.val.value)
                 IN IF ~decrypted.ok \/ ~args.reveal THEN key_bufs
                    ELSE key_bufs \cup {Buffer("run_get::to_vec", decrypted.val, FALSE)}

\* run_keygen: the result and the 32-byte `key`; an RNG failure returns before
\* key.zeroize(), with the bytes try_fill_bytes had written by then
run_keygen(rng, write_ok) ==
  IF ~rng.ok THEN Err("Crypto", "failed to generate key")
  ELSE IF ~write_ok THEN Err("EnvFile", "failed to write key file")
  ELSE Ok(B64Encode(rng.bytes))

run_keygen_buffers(rng) == {Buffer("run_keygen::key", rng.bytes, rng.ok)}

(***************************************************************************)
(* One invocation of set, get or keygen and the buffers it released.       *)
(***************************************************************************)
MemKeyArgPool == {None, Some(Key1B64), Some(B64Encode(KeyShort))}

MemKeyFilePool ==
  {None, Some(FileOf(B64Encode(KeyShort) \o <<"\n">>)), Some(UnreadableFile)}

MemSealedKeyPool == {None, Some(Key1B64)}

MemStdinPool == {StdinOf(Key1B64 \o <<"\n">>), StdinOf(<<"p", "w", "\n">>), StdinBroken}

\* What a failed read may have delivered before it failed
PartialPool == {<<>>, <<"p">>}

MemEnvFiles ==
  {FileOf(<<"A", "=", "h", "i", "\n">>),
   FileOf(<<"A", "=">> \o SealedA \o <<"\n">>),
   FileOf(<<"A", "=">> \o SealedBinary \o <<"\n">>)}

\* try_fill_bytes: 32 bytes, or a failure after none or some of them
KeygenRngPool ==
  {[ok |-> TRUE, bytes |-> Key1], [ok |-> TRUE, bytes |-> Key2],
   [ok |-> FALSE, bytes |-> <<>>], [ok |-> FALSE, bytes |-> SubSeq(Key1, 1, 8)]}

MemArgsPool ==
  {[var_name |-> <<"A">>, stdin |-> a.stdin, value |-> a.value, value_file |-> a.value_file,
    allow_argv |-> a.allow_argv, key |-> k, key_file |-> kf, key_stdin |-> ks,
    reveal |-> r] :
     a \in ValueArgPool, k \in MemKeyArgPool, kf \in MemKeyFilePool, ks \in BOOLEAN,
     r \in BOOLEAN}

IdleMem ==
  [pc |-> "idle", cmd |-> "none", args |-> <<>>, sealed_key |-> None,
   stdin |-> StdinBroken, fs |-> MissingFile, result |-> NoResult, released |-> {}]

InitMem ==
  /\ \/ \E a \in MemArgsPool, sk \in MemSealedKeyPool, in \in MemStdinPool,
          f \in MemEnvFiles, cmd \in {"set", "get"} :
          mem = [IdleMem EXCEPT !.pc = "start", !.cmd = cmd, !.args = a,
                                !.sealed_key = sk, !.stdin = in, !.fs = f]
     \/ mem = [IdleMem EXCEPT !.pc = "start", !.cmd = "keygen"]
  /\ codec = "idle"
  /\ env = "idle"
  /\ intake = "idle"
  /\ cli = "idle"
  /\ lib = "idle"
  /\ race = "idle"

MemSet ==
  /\ mem.pc = "start"
  /\ mem.cmd = "set"
  /\ \E rng \in RngOutcomes, write_ok \in BOOLEAN, partial \in PartialPool :
       mem' = [mem EXCEPT
                 !.pc = "done",
                 !.result = run_set(mem.args, mem.sealed_key, mem.stdin, mem.fs, rng,
                                    write_ok).result,
                 !.released = run_set_buffers(mem.args, mem.sealed_key, mem.stdin, partial)]
  /\ UNCHANGED <<codec, env, intake, cli, lib, race>>

MemGet ==
  /\ mem.pc = "start"
  /\ mem.cmd = "get"
  /\ \E partial \in PartialPool :
       mem' = [mem EXCEPT
                 !.pc = "done",
                 !.result = run_get(mem.args, mem.sealed_key, mem.stdin, mem.fs).result,
                 !.released = run_get_buffers(mem.args, mem.sealed_key, mem.stdin, mem.fs,
                                              partial)]
  /\ UNCHANGED <<codec, env, intake, cli, lib, race>>

MemKeygen ==
  /\ mem.pc = "start"
  /\ mem.cmd = "keygen"
  /\ \E rng \in KeygenRngPool, write_ok \in BOOLEAN :
       mem' = [mem EXCEPT !.pc = "done", !.result = run_keygen(rng, write_ok),
                          !.released = run_keygen_buffers(rng)]
  /\ UNCHANGED <<codec, env, intake, cli, lib, race>>

NextMem == MemSet \/ MemGet \/ MemKeygen

SpecMem == InitMem /\ [][NextMem]_vars

(***************************************************************************)
(* C13: zeroization on every exit path.                                    *)
(***************************************************************************)
\* C13: in set, get and keygen every intermediate buffer that held raw plaintext
\* or raw key bytes (the raw stdin or file string, the base64-decoded key bytes,
\* the decrypted copy made for printing, the 32-byte keygen buffer) is
\* overwritten with zeros before it is released, on success and on every error
\* path.
C13_ZeroizedBeforeRelease ==
  mem.pc = "done" => \A b \in mem.released : b.held # <<>> => b.zeroized

(***************************************************************************)
(* Two processes running upsert_var on the same env file with no lock.     *)
(* Each takes two steps, the fs::read_to_string and the fs::write of       *)
(* upsert_var, and the steps of the two processes interleave freely.       *)
(***************************************************************************)
Writers == {1, 2}

RaceFiles ==
  {MissingFile, UnreadableFile,
   FileOf(<<"A", "=", "1", "\n">>),
   FileOf(<<"B", "=", "2", "\n", "A", "=", "1", "\n">>),
   FileOf(<<"e", "x", "p", "o", "r", "t", " ", "A", "=", "1">>)}

RaceVarPool == {<<"A">>, <<"B">>}

RaceValuePool == {<<"x">>, <<"y", "y">>}

\* Mutant of Snapshot: the new content is computed from the file as it is at the
\* time of the write
Snapshot_AtWrite(p) == IF race.fs.kind = "file" THEN race.fs.content ELSE <<>>

\* `content` of process p: what its fs::read_to_string returned
Snapshot(p) == race.proc[p].content

IdleWriter ==
  [pc |-> "read", var |-> <<>>, value |-> <<>>, content |-> <<>>, result |-> NoResult]

InitRace ==
  /\ \E f \in RaceFiles, v1 \in RaceVarPool, v2 \in RaceVarPool,
        x1 \in RaceValuePool, x2 \in RaceValuePool :
       race = [fs |-> f,
               proc |-> [p \in Writers |->
                           [IdleWriter EXCEPT !.var = IF p = 1 THEN v1 ELSE v2,
                                              !.value = IF p = 1 THEN x1 ELSE x2]],
               steps |-> <<>>,
               last |-> 0]
  /\ codec = "idle"
  /\ env = "idle"
  /\ intake = "idle"
  /\ cli = "idle"
  /\ lib = "idle"
  /\ mem = "idle"

\* upsert_var up to the read: the content of the file, nothing for a missing
\* file, an EnvFile error and no write for any other read error
RaceRead(p) ==
  /\ race.proc[p].pc = "read"
  /\ race' =
       IF race.fs.kind = "unreadable"
         THEN [race EXCEPT !.proc[p].pc = "done",
                           !.proc[p].result = Err("EnvFile", MsgReadEnv),
                           !.steps = Append(@, <<"read", p>>)]
         ELSE [race EXCEPT !.proc[p].pc = "write",
                           !.proc[p].content =
                             IF race.fs.kind = "missing" THEN <<>> ELSE race.fs.content,
                           !.steps = Append(@, <<"read", p>>)]
  /\ UNCHANGED <<codec, env, intake, cli, lib, mem>>

\* upsert_var from the read on: the new content computed from `content`, and
\* fs::write, which replaces the file or fails
RaceWrite(p) ==
  /\ race.proc[p].pc = "write"
  /\ \E write_ok \in BOOLEAN :
       race' =
         IF write_ok
           THEN [race EXCEPT
                   !.fs = FileOf(NewContent(Snapshot(p), race.proc[p].var,
                                            race.proc[p].value)),
                   !.proc[p].pc = "done",
                   !.proc[p].result = Ok(<<>>),
                   !.steps = Append(@, <<"write", p>>),
                   !.last = p]
           ELSE [race EXCEPT !.proc[p].pc = "done",
                             !.proc[p].result = Err("EnvFile", MsgWriteEnv),
                             !.steps = Append(@, <<"write failed", p>>)]
  /\ UNCHANGED <<codec, env, intake, cli, lib, mem>>

NextRace == \E p \in Writers : RaceRead(p) \/ RaceWrite(p)

SpecRace == InitRace /\ [][NextRace]_vars

(***************************************************************************)
(* C14: concurrent writers, the later writer wins.                         *)
(***************************************************************************)
\* The interleaving read1, read2, write1, write2
BothReadThenBothWrite == <<<<"read", 1>>, <<"read", 2>>, <<"write", 1>>, <<"write", 2>>>>

\* C14: with two upsert_var running as separate processes, each one whole-file
\* read followed by one whole-file write and no lock, in every interleaving the
\* file holds, once a write has happened, the content the process of the last
\* write computed from the snapshot it had read; in the interleaving read1,
\* read2, write1, write2 with two different variables the binding written by the
\* first process is not in the final file.
C14_LaterWriterWins ==
  /\ race.last # 0 =>
       LET w == race.proc[race.last]
       IN race.fs = FileOf(NewContent(w.content, w.var, w.value))
  /\ (race.steps = BothReadThenBothWrite /\ race.proc[1].var # race.proc[2].var) =>
       LET kept == read_var(race.fs, race.proc[1].var).val
       IN ~(kept.some /\ kept.value = race.proc[1].value)

\* read1, read2, write1, write2 on A and B: the second write took the first away
C14_Witness ==
  /\ race.steps = BothReadThenBothWrite
  /\ race.proc[1].var = <<"A">>
  /\ race.proc[2].var = <<"B">>
  /\ race.last = 2
  /\ race.fs = FileOf(<<"A", "=", "1", "\n", "B", "=", "y", "y", "\n">>)

====
